---- MODULE Spec2Model ----
(***************************************************************************)
(* Model of the Prompt Fusion engine (core/promptFusionEngine.js).         *)
(*                                                                         *)
(* Weights are fixed-point numbers in thousandths: 1.0 is One (1000) and   *)
(* the validation tolerance 0.001 is Tolerance (1).  A weights object is a *)
(* function from the keys it has (a subset of LayerKeys) to weights; the   *)
(* weights argument of a call is <<>> when the argument is omitted and     *)
(* <<w>> when the object w is passed.  A prompt argument is <<>> when the  *)
(* text is undefined and <<s>> for the string s.  An output string is the  *)
(* sequence of its lines; a line is a record (see Line).                   *)
(***************************************************************************)
EXTENDS Integers, Sequences, FiniteSets, TLC

VARIABLES
    fusionStrategies,   \* the engine's own strategy table (set by the constructor)
    layers,             \* the layer texts of the call: key -> string, a key may be absent
    weights,            \* the weights argument: <<>> (omitted) or <<object>>
    weight,             \* the argument of a getSemanticEmphasis call
    op,                 \* the operation that was called, "idle" before a call
    strategy,           \* the strategy argument of fusePrompts: <<>> (omitted) or <<name>>
    outcome,            \* what the call did: returned a value or threw
    personaId,          \* determineWeights argument: <<>> (null) or <<id>>
    personaContent,     \* determineWeights argument: <<>> (null) or <<content>>
    context,            \* determineContextualWeights argument: key -> string, a key may be absent
    options,            \* the options createFusionMessageModifier was created with
    invocations,        \* the invocations of the message modifier
    locals,             \* personaContent and activePersonaId of the invocations
    staticPrompts,      \* the arguments createStaticFusionModifier was called with
    fusedContent,       \* fusedContent of the static modifier: <<>> before its creation
    staticInvocations   \* the invocations of the static modifier

resolverVars == <<personaId, personaContent, context>>
staticVars == <<staticPrompts, fusedContent, staticInvocations>>
modifierVars == <<options, invocations, locals, staticPrompts, fusedContent, staticInvocations>>
vars == <<fusionStrategies, layers, weights, weight, op, strategy, outcome,
          personaId, personaContent, context, options, invocations, locals,
          staticPrompts, fusedContent, staticInvocations>>

LayerKeys == {"base", "brain", "persona"}

----------------------------------------------------------------------------
(* Fixed-point constants of the engine *)

One == 1000
Tolerance == 1
Critical == 600
High == 400
Moderate == 200

DefaultWeight == [base |-> 500, brain |-> 300, persona |-> 200]

----------------------------------------------------------------------------
(* Bounds of the model *)

NInvocations == 2
NegK == 1
MaxK == 6
MaxEmphasisWeight == 1200

Grid == {100 * k : k \in (0 - NegK)..MaxK}
Edges == {Tolerance, Moderate - 1, High - 1, Critical - 1}
WeightVals == Grid \cup Edges \cup {One, One + 100}

Texts == {"", "x"}

WeightObjects == UNION {[K -> WeightVals] : K \in SUBSET LayerKeys}
LayerBundles == UNION {[K -> Texts] : K \in SUBSET LayerKeys}

\* layer texts for conflict detection
DetectTexts ==
    {"", "Be verbose and detailed.", "Maintain moderate length.", "Be extremely concise.",
     "INFORMAL", "Quick and creative", "thorough, traditional", "Stay professional", "brief",
     "verbose, brief, formal, casual, quick, careful, creative, traditional"}
DetectBundles == UNION {[K -> DetectTexts] : K \in SUBSET LayerKeys}
DetectWeights == {<<>>, << [base |-> 300, brain |-> 300, persona |-> 300] >>}

\* arguments of the resolver
IdArgs == {<<>>, <<"">>, <<"default">>, <<"analyst">>}
ContentArgs == {<<>>, <<"">>, <<" \n">>, <<"x">>, <<" x ">>}
ContextValues ==
    [taskType |-> {"complex_analysis", "simple"}, userRole |-> {"expert", "novice"},
     urgency |-> {"high"}]
Contexts ==
    UNION {{c \in [K -> UNION {ContextValues[k] : k \in K}] : \A k \in K : c[k] \in ContextValues[k]} :
              K \in SUBSET {"taskType", "userRole", "urgency"}}

\* configuration and inputs of the message modifier
ThreadArgs == {<<>>, <<"t1">>, <<"t2">>}
PersonaDataArgs ==
    {<<>>,
     << [id |-> <<"analyst">>, content |-> <<"x">>] >>,
     << [id |-> <<>>, content |-> <<"x">>] >>,
     << [id |-> <<"default">>, content |-> <<"x">>] >>,
     << [id |-> <<"analyst">>, content |-> <<" \n">>] >>,
     << [id |-> <<"analyst">>, content |-> <<>>] >>}
Fetchers == {<<>>} \cup {<<f>> : f \in [{"t1", "t2"} -> PersonaDataArgs]}
MessageLists ==
    {<<>>, << [role |-> "user", content |-> "hi"], [role |-> "assistant", content |-> "hello"] >>}
StaticPrompts ==
    [basePrompt : {<<>>, <<"B">>}, brainPrompt : {<<>>, <<"C">>},
     personaPrompt : {<<>>, <<"">>, <<" \n">>, <<"P">>}]
ModifierOptions ==
    [basePrompt : {<<>>, <<"B">>}, brainPrompt : {<<>>, <<"C">>}, getPersonaContent : Fetchers]

StrategyNames == {"weighted", "semanticWeighted", "bogus", "toString", "constructor"}

----------------------------------------------------------------------------
(* Values *)

Abs(x) == IF x < 0 THEN -x ELSE x

\* a line of output text: a marker, a layer text, a blank line or a line of
\* the conflict-resolution rules
Line(kind, name, label, index, num, text) ==
    [kind |-> kind, name |-> name, label |-> label, index |-> index, num |-> num, text |-> text]

Blank == Line("blank", "", "", 0, 0, "")
TextLine(s) == Line("text", "", "", 0, 0, s)

\* outcomes of a call
NoOutcome == [kind |-> "none", error |-> "", name |-> "", sum |-> 0, value |-> <<>>, label |-> ""]
Returned(v) == [kind |-> "returned", error |-> "", name |-> "", sum |-> 0, value |-> v, label |-> ""]
ReturnedLabel(l) == [kind |-> "returned", error |-> "", name |-> "", sum |-> 0, value |-> <<>>, label |-> l]
ReturnedOther(what) == [kind |-> "returned", error |-> "", name |-> what, sum |-> 0, value |-> <<>>, label |-> ""]
WeightSumErrorExpected(s) == [kind |-> "threw", error |-> "WeightSum", name |-> "", sum |-> One, value |-> <<>>, label |-> ""]
WeightSumError(s) == [kind |-> "threw", error |-> "WeightSum", name |-> "", sum |-> s, value |-> <<>>, label |-> ""]
UnknownStrategyError(n) == [kind |-> "threw", error |-> "UnknownStrategy", name |-> n, sum |-> 0, value |-> <<>>, label |-> ""]
TypeError == [kind |-> "threw", error |-> "TypeError", name |-> "", sum |-> 0, value |-> <<>>, label |-> ""]

\* the prompt argument for a layer: <<>> is undefined
Prompt(ls, k) == IF k \in DOMAIN ls THEN <<ls[k]>> ELSE <<>>

\* JavaScript truthiness of a prompt argument
Truthy(p) == p # <<>> /\ p[1] # ""

\* const { base: baseWeight = 0.5, brain: brainWeight = 0.3, persona: personaWeight = 0.2 } = weights
DestructureZero(w, k) == IF k \in DOMAIN w THEN w[k] ELSE 0

Destructure(w, k) == IF k \in DOMAIN w THEN w[k] ELSE DefaultWeight[k]

----------------------------------------------------------------------------
(* String.prototype.trim on a sequence of lines: leading and trailing blank *)
(* lines (and the last line terminator) are removed                         *)

SetMin(S) == CHOOSE x \in S : \A y \in S : x <= y
SetMax(S) == CHOOSE x \in S : \A y \in S : x >= y

Trim(s) ==
    LET nonBlank == {i \in 1..Len(s) : s[i] # Blank}
    IN  IF nonBlank = {} THEN <<>> ELSE SubSeq(s, SetMin(nonBlank), SetMax(nonBlank))

----------------------------------------------------------------------------
(* getSemanticEmphasis *)

getSemanticEmphasisStrict(w) ==
    IF w > Critical THEN "CRITICAL PRIORITY - MUST FOLLOW"
    ELSE IF w > High THEN "HIGH IMPORTANCE"
    ELSE IF w > Moderate THEN "MODERATE GUIDANCE"
    ELSE "OPTIONAL CONSIDERATION"

getSemanticEmphasisCriticalFromHigh(w) ==
    IF w >= High THEN "CRITICAL PRIORITY - MUST FOLLOW"
    ELSE IF w >= Moderate THEN "MODERATE GUIDANCE"
    ELSE "OPTIONAL CONSIDERATION"

getSemanticEmphasis(w) ==
    IF w >= Critical THEN "CRITICAL PRIORITY - MUST FOLLOW"
    ELSE IF w >= High THEN "HIGH IMPORTANCE"
    ELSE IF w >= Moderate THEN "MODERATE GUIDANCE"
    ELSE "OPTIONAL CONSIDERATION"

----------------------------------------------------------------------------
(* Validation and inclusion tests shared by the two strategies *)

WeightSum(w) == Destructure(w, "base") + Destructure(w, "brain") + Destructure(w, "persona")

\* Math.abs(weightSum - 1.0) > 0.001
InvalidSumOneSided(sum) == sum - One > Tolerance

InvalidSum(sum) == Abs(sum - One) > Tolerance

\* basePrompt && baseWeight > 0
IncludedNonNegative(p, w) == Truthy(p) /\ w >= 0

Included(p, w) == Truthy(p) /\ w > 0

\* the order of the three if-statements that emit the blocks
BlockOrderPersonaFirst == <<"persona", "brain", "base">>

BlockOrder == <<"base", "brain", "persona">>

----------------------------------------------------------------------------
(* weightedFusion *)

WeightTag == [base |-> "BASE_WEIGHT", brain |-> "BRAIN_WEIGHT", persona |-> "PERSONA_WEIGHT"]

WeightedBlockMarkerAlways(k, p, w) ==
    IF Included(p, w)
    THEN <<Line("weightMarker", WeightTag[k], "", 0, w, ""), TextLine(p[1]), Blank>>
    ELSE <<Line("weightMarker", WeightTag[k], "", 0, w, "")>>

\* `[BASE_WEIGHT:${baseWeight}]\n${basePrompt}\n\n`
WeightedBlock(k, p, w) ==
    IF Included(p, w)
    THEN <<Line("weightMarker", WeightTag[k], "", 0, w, ""), TextLine(p[1]), Blank>>
    ELSE <<>>

weightedFusion(ls, wArg) ==
    IF wArg = <<>> THEN TypeError
    ELSE LET w == wArg[1]
             weightSum == WeightSum(w)
             Block(i) == WeightedBlock(BlockOrder[i], Prompt(ls, BlockOrder[i]), Destructure(w, BlockOrder[i]))
         IN  IF InvalidSum(weightSum) THEN WeightSumError(weightSum)
             ELSE Returned(Trim(Block(1) \o Block(2) \o Block(3)))

----------------------------------------------------------------------------
(* generateConflictResolutionRules *)

\* the array literal, before filter and sort
RuleLayersBaseFirst(w) ==
    << [name |-> "BASE", weight |-> Destructure(w, "base")],
       [name |-> "BRAIN", weight |-> Destructure(w, "brain")],
       [name |-> "PERSONA", weight |-> Destructure(w, "persona")] >>

RuleLayers(w) ==
    << [name |-> "PERSONA", weight |-> Destructure(w, "persona")],
       [name |-> "BRAIN", weight |-> Destructure(w, "brain")],
       [name |-> "BASE", weight |-> Destructure(w, "base")] >>

FilterNonZero(s) == SelectSeq(s, LAMBDA l : l.weight # 0)

\* .filter(l => l.weight > 0)
FilterPositive(s) == SelectSeq(s, LAMBDA l : l.weight > 0)

\* .sort((a, b) => b.weight - a.weight): a stable sort, highest weight first
RECURSIVE InsertSorted(_, _)
InsertSorted(x, s) ==
    IF s = <<>> THEN <<x>>
    ELSE IF Head(s).weight - x.weight < 0 THEN <<x>> \o s
    ELSE <<Head(s)>> \o InsertSorted(x, Tail(s))

RECURSIVE SortAscending(_)
SortAscending(s) ==
    IF s = <<>> THEN <<>>
    ELSE LET rest == SortAscending(SubSeq(s, 1, Len(s) - 1))
             x == s[Len(s)]
             before == SelectSeq(rest, LAMBDA l : l.weight <= x.weight)
             after == SelectSeq(rest, LAMBDA l : l.weight > x.weight)
         IN  before \o <<x>> \o after

RECURSIVE SortByWeight(_)
SortByWeight(s) ==
    IF s = <<>> THEN <<>>
    ELSE InsertSorted(s[Len(s)], SortByWeight(SubSeq(s, 1, Len(s) - 1)))

RulesHeader == Line("rulesHeader", "", "", 0, 0, "[CONFLICT RESOLUTION RULES]")
RulesIntro == Line("rulesIntro", "", "", 0, 0, "When instructions conflict, apply this priority order:")
RulesClosing == Line("rulesClosing", "", "", 0, 0, "Always prioritize higher-weighted layers when resolving conflicts.")

\* `${index + 1}. ${layer.name} instructions (weight: ${layer.weight})\n`
RuleLine(l, index) == Line("rule", l.name, "", index + 1, l.weight, "")

generateConflictResolutionRulesUnlessSingle(w) ==
    LET sorted == SortByWeight(FilterPositive(RuleLayers(w)))
    IN  IF Len(sorted) <= 1 THEN <<>>
        ELSE <<Blank, RulesHeader, RulesIntro>>
             \o [i \in 1..Len(sorted) |-> RuleLine(sorted[i], i - 1)]
             \o <<Blank, RulesClosing>>

generateConflictResolutionRules(w) ==
    LET sorted == SortByWeight(FilterPositive(RuleLayers(w)))
    IN  <<Blank, RulesHeader, RulesIntro>>
        \o [i \in 1..Len(sorted) |-> RuleLine(sorted[i], i - 1)]
        \o <<Blank, RulesClosing>>

----------------------------------------------------------------------------
(* semanticWeightedFusion *)

LayerTag == [base |-> "BASE LAYER", brain |-> "BRAIN CONFIGURATION", persona |-> "PERSONA INSTRUCTIONS"]

SemanticBlockRawWeight(k, p, w) ==
    IF Included(p, w)
    THEN <<Line("layerMarker", LayerTag[k], "", 0, w, ""), TextLine(p[1]), Blank>>
    ELSE <<>>

\* `[BASE LAYER - ${emphasis}]\n${basePrompt}\n\n`
SemanticBlock(k, p, w) ==
    IF Included(p, w)
    THEN <<Line("layerMarker", LayerTag[k], getSemanticEmphasis(w), 0, 0, ""), TextLine(p[1]), Blank>>
    ELSE <<>>

\* the argument of this.generateConflictResolutionRules(weights): the weights
\* object as it was received, whatever the texts
RulesArgumentOfBlocks(ls, w) ==
    [k \in LayerKeys |->
        IF Included(Prompt(ls, k), Destructure(w, k)) THEN Destructure(w, k) ELSE 0]

RulesArgument(ls, w) == w

semanticWeightedFusion(ls, wArg) ==
    IF wArg = <<>> THEN TypeError
    ELSE LET w == wArg[1]
             weightSum == WeightSum(w)
             Block(i) == SemanticBlock(BlockOrder[i], Prompt(ls, BlockOrder[i]), Destructure(w, BlockOrder[i]))
         IN  IF InvalidSum(weightSum) THEN WeightSumError(weightSum)
             ELSE Returned(Trim(Block(1) \o Block(2) \o Block(3)
                                \o generateConflictResolutionRules(RulesArgument(ls, w))))

----------------------------------------------------------------------------
(* detectConflicts *)

UpperToLower ==
    [A |-> "a", B |-> "b", C |-> "c", D |-> "d", E |-> "e", F |-> "f", G |-> "g",
     H |-> "h", I |-> "i", J |-> "j", K |-> "k", L |-> "l", M |-> "m", N |-> "n",
     O |-> "o", P |-> "p", Q |-> "q", R |-> "r", S |-> "s", T |-> "t", U |-> "u",
     V |-> "v", W |-> "w", X |-> "x", Y |-> "y", Z |-> "z"]

\* the i flag: letters compare without case
RECURSIVE Lower(_)
Lower(s) ==
    IF s = "" THEN ""
    ELSE (IF Head(s) \in DOMAIN UpperToLower THEN UpperToLower[Head(s)] ELSE Head(s))
         \o Lower(Tail(s))

Contains(s, sub) ==
    \E i \in 1..(Len(s) - Len(sub) + 1) : SubSeq(s, i, i + Len(sub) - 1) = sub

\* pattern.test(prompt) for a pattern /a|b|c/i, given as the set of its alternatives
RegexTest(alternatives, s) ==
    \E a \in alternatives : Contains(Lower(s), a)

opposingPatterns ==
    << [pattern1 |-> {"verbose", "detailed", "comprehensive"},
        pattern2 |-> {"concise", "brief", "short"}, type |-> "verbosity"],
       [pattern1 |-> {"formal", "professional"},
        pattern2 |-> {"casual", "informal"}, type |-> "tone"],
       [pattern1 |-> {"fast", "quick", "immediate"},
        pattern2 |-> {"careful", "thorough", "deliberate"}, type |-> "speed"],
       [pattern1 |-> {"creative", "innovative"},
        pattern2 |-> {"conservative", "traditional"}, type |-> "approach"] >>

\* Object.keys(prompts)
PromptKeys == <<"base", "brain", "persona">>

\* the (i, j) of the two nested loops, in the order they are visited
LayerPairs == << <<1, 2>>, <<1, 3>>, <<2, 3>> >>

\* (has1in1 && has2in2) || (has2in1 && has1in2)
OpposedOneWay(has1in1, has2in1, has1in2, has2in2) == has1in1 /\ has2in2

Opposed(has1in1, has2in1, has1in2, has2in2) ==
    (has1in1 /\ has2in2) \/ (has2in1 /\ has1in2)

ConflictRecord(type, l1, l2) ==
    [type |-> type, layer1 |-> l1, layer2 |-> l2,
     description |-> "Conflicting " \o type \o " instructions between " \o l1 \o " and " \o l2]

PatternConflictsPerOrientation(pat, l1, l2, prompt1, prompt2) ==
    (IF RegexTest(pat.pattern1, prompt1) /\ RegexTest(pat.pattern2, prompt2)
     THEN <<ConflictRecord(pat.type, l1, l2)>> ELSE <<>>)
    \o (IF RegexTest(pat.pattern2, prompt1) /\ RegexTest(pat.pattern1, prompt2)
        THEN <<ConflictRecord(pat.type, l1, l2)>> ELSE <<>>)

\* the body of opposingPatterns.forEach for one pair of layers
PatternConflicts(pat, l1, l2, prompt1, prompt2) ==
    IF Opposed(RegexTest(pat.pattern1, prompt1), RegexTest(pat.pattern2, prompt1),
               RegexTest(pat.pattern1, prompt2), RegexTest(pat.pattern2, prompt2))
    THEN <<ConflictRecord(pat.type, l1, l2)>>
    ELSE <<>>

\* the body of the inner loop
PairConflicts(ls, pair) ==
    LET l1 == PromptKeys[pair[1]]
        l2 == PromptKeys[pair[2]]
        prompt1 == Prompt(ls, l1)
        prompt2 == Prompt(ls, l2)
    IN  IF ~Truthy(prompt1) \/ ~Truthy(prompt2) THEN <<>>
        ELSE PatternConflicts(opposingPatterns[1], l1, l2, prompt1[1], prompt2[1])
             \o PatternConflicts(opposingPatterns[2], l1, l2, prompt1[1], prompt2[1])
             \o PatternConflicts(opposingPatterns[3], l1, l2, prompt1[1], prompt2[1])
             \o PatternConflicts(opposingPatterns[4], l1, l2, prompt1[1], prompt2[1])

detectConflictsStrict(ls) ==
    IF DOMAIN ls # LayerKeys THEN TypeError
    ELSE Returned(PairConflicts(ls, LayerPairs[1])
                  \o PairConflicts(ls, LayerPairs[2])
                  \o PairConflicts(ls, LayerPairs[3]))

detectConflicts(ls) ==
    Returned(PairConflicts(ls, LayerPairs[1])
             \o PairConflicts(ls, LayerPairs[2])
             \o PairConflicts(ls, LayerPairs[3]))

----------------------------------------------------------------------------
(* The weight resolver: determineWeights, determineContextualWeights *)

WhitespaceChars == {" ", "\t", "\n", "\r"}

\* String.prototype.trim
RECURSIVE TrimStart(_)
TrimStart(s) ==
    IF s = "" THEN ""
    ELSE IF Head(s) \in WhitespaceChars THEN TrimStart(Tail(s)) ELSE s

RECURSIVE TrimEnd(_)
TrimEnd(s) ==
    IF s = "" THEN ""
    ELSE IF SubSeq(s, Len(s), Len(s)) \in WhitespaceChars
         THEN TrimEnd(SubSeq(s, 1, Len(s) - 1)) ELSE s

TrimString(s) == TrimEnd(TrimStart(s))

WithPersona == [base |-> 200, brain |-> 300, persona |-> 500]
WithoutPersona == [base |-> 400, brain |-> 600, persona |-> 0]

hasActivePersonaAnyId(id, content) ==
    /\ Truthy(id)
    /\ Truthy(content)
    /\ Len(TrimString(content[1])) > 0

\* personaId && personaId !== 'default' && personaContent && personaContent.trim().length > 0
hasActivePersona(id, content) ==
    /\ Truthy(id)
    /\ id[1] # "default"
    /\ Truthy(content)
    /\ Len(TrimString(content[1])) > 0

determineWeightsNoTrim(id, content) ==
    IF Truthy(id) /\ id[1] # "default" /\ Truthy(content) /\ Len(content[1]) > 0
    THEN WithPersona ELSE WithoutPersona

determineWeights(id, content) ==
    IF hasActivePersona(id, content) THEN WithPersona ELSE WithoutPersona

determineContextualWeightsUnbalanced(ctx) ==
    IF "taskType" \in DOMAIN ctx /\ ctx["taskType"] = "complex_analysis"
    THEN [base |-> 500, brain |-> 400, persona |-> 100]
    ELSE IF "userRole" \in DOMAIN ctx /\ ctx["userRole"] = "expert"
    THEN [base |-> 300, brain |-> 200, persona |-> 500]
    ELSE [base |-> 400, brain |-> 400, persona |-> 300]

determineContextualWeights(ctx) ==
    IF "taskType" \in DOMAIN ctx /\ ctx["taskType"] = "complex_analysis"
    THEN [base |-> 500, brain |-> 400, persona |-> 100]
    ELSE IF "userRole" \in DOMAIN ctx /\ ctx["userRole"] = "expert"
    THEN [base |-> 300, brain |-> 200, persona |-> 500]
    ELSE [base |-> 400, brain |-> 300, persona |-> 300]

----------------------------------------------------------------------------
(* fusePrompts *)

StrategyTableSwapped == [weighted |-> "semanticWeightedFusion", semanticWeighted |-> "weightedFusion"]

\* this.fusionStrategies = { weighted: ..., semanticWeighted: ... }
StrategyTable == [weighted |-> "weightedFusion", semanticWeighted |-> "semanticWeightedFusion"]

\* properties the table, a plain object, inherits from Object.prototype
ObjectPrototype == {"constructor", "toString"}

\* this.fusionStrategies[strategy]: "" stands for undefined
Lookup(table, name) ==
    IF name \in DOMAIN table THEN table[name]
    ELSE IF name \in ObjectPrototype THEN "Object.prototype." \o name
    ELSE ""

\* fusionStrategy(base, brain, persona, weights)
Invoke(f, ls, wArg) ==
    IF f = "weightedFusion" THEN weightedFusion(ls, wArg)
    ELSE IF f = "semanticWeightedFusion" THEN semanticWeightedFusion(ls, wArg)
    ELSE IF f = "Object.prototype.toString" THEN ReturnedOther("[object Undefined]")
    ELSE ReturnedOther("Object")

\* strategy = 'semanticWeighted', weights = {}
fusePrompts(table, ls, sArg, wArg) ==
    LET name == IF sArg = <<>> THEN "semanticWeighted" ELSE sArg[1]
        w == IF wArg = <<>> THEN << <<>> >> ELSE wArg
        fusionStrategy == Lookup(table, name)
    IN  IF fusionStrategy = "" THEN UnknownStrategyError(name)
        ELSE Invoke(fusionStrategy, ls, w)

----------------------------------------------------------------------------
(* The calls *)

\* what a strategy leaves of the weights object it received: the destructuring
\* const { base = 0.5, brain = 0.3, persona = 0.2 } = weights binds locals, and the
\* array sorted in place by generateConflictResolutionRules is a fresh one
WeightsAfterDefaultsAssigned(wArg) ==
    IF wArg = <<>> THEN wArg ELSE << [k \in LayerKeys |-> Destructure(wArg[1], k)] >>

WeightsAfter(wArg) == wArg

Idle == op = "idle"

CallWeightedFusion ==
    /\ Idle
    /\ op' = "weightedFusion"
    /\ outcome' = weightedFusion(layers, weights)
    /\ weights' = WeightsAfter(weights)
    /\ UNCHANGED <<fusionStrategies, layers, weight, strategy, resolverVars, modifierVars>>

CallSemanticWeightedFusion ==
    /\ Idle
    /\ op' = "semanticWeightedFusion"
    /\ outcome' = semanticWeightedFusion(layers, weights)
    /\ weights' = WeightsAfter(weights)
    /\ UNCHANGED <<fusionStrategies, layers, weight, strategy, resolverVars, modifierVars>>

CallFusePrompts ==
    /\ Idle
    /\ \E s \in {<<>>} \cup {<<n>> : n \in StrategyNames} :
          /\ strategy' = s
          /\ outcome' = fusePrompts(fusionStrategies, layers, s, weights)
    /\ op' = "fusePrompts"
    /\ weights' = WeightsAfter(weights)
    /\ UNCHANGED <<fusionStrategies, layers, weight, resolverVars, modifierVars>>

CallGetSemanticEmphasis ==
    /\ Idle
    /\ op' = "getSemanticEmphasis"
    /\ outcome' = ReturnedLabel(getSemanticEmphasis(weight))
    /\ UNCHANGED <<fusionStrategies, layers, weights, weight, strategy, resolverVars, modifierVars>>

CallDetectConflicts ==
    /\ Idle
    /\ op' = "detectConflicts"
    /\ outcome' = detectConflicts(layers)
    /\ UNCHANGED <<fusionStrategies, layers, weights, weight, strategy, resolverVars, modifierVars>>

\* the call is over; the caller still holds its arguments
Return ==
    /\ ~Idle
    /\ op' = "idle"
    /\ strategy' = <<>>
    /\ outcome' = NoOutcome
    /\ UNCHANGED <<fusionStrategies, layers, weights, weight, resolverVars, modifierVars>>

----------------------------------------------------------------------------
(* The resolver calls *)

CallDetermineWeights ==
    /\ Idle
    /\ op' = "determineWeights"
    /\ outcome' = Returned(<<determineWeights(personaId, personaContent)>>)
    /\ UNCHANGED <<fusionStrategies, layers, weights, weight, strategy, resolverVars, modifierVars>>

CallDetermineContextualWeights ==
    /\ Idle
    /\ op' = "determineContextualWeights"
    /\ outcome' = Returned(<<determineContextualWeights(context)>>)
    /\ UNCHANGED <<fusionStrategies, layers, weights, weight, strategy, resolverVars, modifierVars>>

\* const weights = determineWeights(...): the caller keeps the distribution
\* it obtained and supplies it to the engine
UseResolvedWeights ==
    /\ op \in {"determineWeights", "determineContextualWeights"}
    /\ weights' = outcome.value
    /\ op' = "idle"
    /\ outcome' = NoOutcome
    /\ UNCHANGED <<fusionStrategies, layers, weight, strategy, resolverVars, modifierVars>>

\* states of the variables a specification does not use
NoResolverCall ==
    /\ personaId = <<>>
    /\ personaContent = <<>>
    /\ context = <<>>

NoDynamicModifier ==
    /\ options = <<>>
    /\ invocations = <<>>
    /\ locals = <<>>

NoStaticModifier ==
    /\ staticPrompts = <<>>
    /\ fusedContent = <<>>
    /\ staticInvocations = <<>>

NoModifier == NoDynamicModifier /\ NoStaticModifier

----------------------------------------------------------------------------
(* The callback returned by createFusionMessageModifier *)

\* x || ''
OrEmpty(p) == IF Truthy(p) THEN p[1] ELSE ""

\* x || 'default'
OrDefault(p) == IF Truthy(p) THEN p[1] ELSE "default"

\* let personaContent = null; let activePersonaId = 'default'
FreshLocals == [personaContent |-> <<>>, activePersonaId |-> "default"]

\* the bindings an invocation reads and writes: its own, declared in the callback
SlotShared(i) == 1

Slot(i) == i

\* the arguments of the semanticWeightedFusion call of the callback
ModifierLayers(opts, loc) ==
    LET given == [brain |-> OrEmpty(opts.brainPrompt), persona |-> OrEmpty(loc.personaContent)]
    IN  IF opts.basePrompt = <<>> THEN given
        ELSE [k \in LayerKeys |-> IF k = "base" THEN opts.basePrompt[1] ELSE given[k]]

\* [systemMessage, ...messages]
PrependAfter(systemMessage, messages) == messages \o <<systemMessage>>

Prepend(systemMessage, messages) == <<systemMessage>> \o messages

\* from determineWeights to the returned array
FinishModifier(opts, loc, messages) ==
    LET w == determineWeights(<<loc.activePersonaId>>, loc.personaContent)
        fused == semanticWeightedFusion(ModifierLayers(opts, loc), <<w>>)
        systemMessage ==
            [role |-> "system",
             content |-> fused.value,
             metadata |-> [mode |-> IF loc.activePersonaId = "default" THEN "default" ELSE "persona",
                           personaId |-> loc.activePersonaId,
                           fusionWeights |-> w]]
    IN  IF fused.kind = "returned" THEN Returned(Prepend(systemMessage, messages)) ELSE fused

\* the callback runs up to `await getPersonaContent(chatId)`, or to its end
\* when there is nothing to fetch
ModifierStart(i) ==
    /\ invocations[i].pc = "ready"
    /\ LET inv == invocations[i]
           fresh == [locals EXCEPT ![Slot(i)] = FreshLocals]
       IN  IF Truthy(inv.chatId) /\ options.getPersonaContent # <<>>
           THEN /\ locals' = fresh
                /\ invocations' = [invocations EXCEPT
                       ![i].pc = "awaiting",
                       ![i].personaData = options.getPersonaContent[1][inv.chatId[1]]]
           ELSE /\ locals' = fresh
                /\ invocations' = [invocations EXCEPT
                       ![i].pc = "done",
                       ![i].result = FinishModifier(options, fresh[Slot(i)], inv.messages)]
    /\ UNCHANGED <<fusionStrategies, layers, weights, weight, op, strategy, outcome,
                   resolverVars, options, staticVars>>

\* the fetch has settled: the callback continues to its end
ModifierResume(i) ==
    /\ invocations[i].pc = "awaiting"
    /\ LET inv == invocations[i]
           fetched ==
               IF inv.personaData # <<>>
               THEN [locals EXCEPT ![Slot(i)] =
                        [personaContent |-> inv.personaData[1].content,
                         activePersonaId |-> OrDefault(inv.personaData[1].id)]]
               ELSE locals
       IN  /\ locals' = fetched
           /\ invocations' = [invocations EXCEPT
                  ![i].pc = "done",
                  ![i].result = FinishModifier(options, fetched[Slot(i)], inv.messages)]
    /\ UNCHANGED <<fusionStrategies, layers, weights, weight, op, strategy, outcome,
                   resolverVars, options, staticVars>>

----------------------------------------------------------------------------
(* createStaticFusionModifier and the callback it returns *)

\* personaPrompt = ''
StaticPersonaPrompt(args) == IF args.personaPrompt = <<>> THEN "" ELSE args.personaPrompt[1]

\* the arguments of the semanticWeightedFusion call of the factory
StaticLayers(args) ==
    LET given == [k \in LayerKeys |->
                    IF k = "base" THEN args.basePrompt
                    ELSE IF k = "brain" THEN args.brainPrompt
                    ELSE <<StaticPersonaPrompt(args)>>]
    IN  [k \in {l \in LayerKeys : given[l] # <<>>} |-> given[k][1]]

\* determineWeights(personaPrompt ? 'custom' : 'default', personaPrompt)
StaticWeights(args) ==
    determineWeights(IF StaticPersonaPrompt(args) # "" THEN <<"custom">> ELSE <<"default">>,
                     <<StaticPersonaPrompt(args)>>)

\* the factory fuses once and keeps the text in the closure it returns
createStaticFusionModifier ==
    /\ staticPrompts # <<>>
    /\ fusedContent = <<>>
    /\ LET fused == semanticWeightedFusion(StaticLayers(staticPrompts), <<StaticWeights(staticPrompts)>>)
       IN  /\ fused.kind = "returned"
           /\ fusedContent' = <<fused.value>>
    /\ UNCHANGED <<fusionStrategies, layers, weights, weight, op, strategy, outcome,
                   resolverVars, options, invocations, locals, staticPrompts, staticInvocations>>

\* (messages) => [{ role: 'system', content: fusedContent }, ...messages]
StaticModifierCall(i) ==
    /\ fusedContent # <<>>
    /\ staticInvocations[i].pc = "ready"
    /\ staticInvocations' = [staticInvocations EXCEPT
           ![i].pc = "done",
           ![i].result = Returned(Prepend([role |-> "system", content |-> fusedContent[1]],
                                          staticInvocations[i].messages))]
    /\ UNCHANGED <<fusionStrategies, layers, weights, weight, op, strategy, outcome,
                   resolverVars, options, invocations, locals, staticPrompts, fusedContent>>

----------------------------------------------------------------------------
(* Specification of the fusion calls *)

Init ==
    /\ fusionStrategies = StrategyTable
    /\ layers \in LayerBundles
    /\ weights \in {<<>>} \cup {<<w>> : w \in WeightObjects}
    /\ weight = 0
    /\ op = "idle"
    /\ strategy = <<>>
    /\ outcome = NoOutcome
    /\ NoResolverCall
    /\ NoModifier

Next ==
    \/ CallWeightedFusion
    \/ CallSemanticWeightedFusion
    \/ CallFusePrompts
    \/ CallDetectConflicts
    \/ CallDetermineWeights
    \/ CallDetermineContextualWeights
    \/ Return

Spec == Init /\ [][Next]_vars

(* Specification of detectConflicts over a set of layer texts *)

InitDetect ==
    /\ fusionStrategies = StrategyTable
    /\ layers \in DetectBundles
    /\ weights \in DetectWeights
    /\ weight = 0
    /\ op = "idle"
    /\ strategy = <<>>
    /\ outcome = NoOutcome
    /\ NoResolverCall
    /\ NoModifier

NextDetect ==
    \/ CallDetectConflicts
    \/ Return

SpecDetect == InitDetect /\ [][NextDetect]_vars

(* Specification of the resolver and of a caller that fuses with the      *)
(* distribution it resolved                                                *)

InitResolver ==
    /\ fusionStrategies = StrategyTable
    /\ layers \in LayerBundles
    /\ weights = <<>>
    /\ weight = 0
    /\ op = "idle"
    /\ strategy = <<>>
    /\ outcome = NoOutcome
    /\ personaId \in IdArgs
    /\ personaContent \in ContentArgs
    /\ context \in Contexts
    /\ NoModifier

NextResolver ==
    \/ CallDetermineWeights
    \/ CallDetermineContextualWeights
    \/ UseResolvedWeights
    \/ CallWeightedFusion
    \/ CallSemanticWeightedFusion
    \/ Return

SpecResolver == InitResolver /\ [][NextResolver]_vars

(* Specification of concurrent invocations of one message modifier *)

InitDynamicModifier ==
    /\ options \in ModifierOptions
    /\ \E chat \in [1..NInvocations -> ThreadArgs], msgs \in [1..NInvocations -> MessageLists] :
          invocations = [i \in 1..NInvocations |->
              [pc |-> "ready", chatId |-> chat[i], messages |-> msgs[i],
               personaData |-> <<>>, result |-> NoOutcome]]
    /\ locals = [i \in 1..NInvocations |-> FreshLocals]
    /\ NoStaticModifier

InitStaticModifier ==
    /\ staticPrompts \in StaticPrompts
    /\ fusedContent = <<>>
    /\ \E msgs \in [1..NInvocations -> MessageLists] :
          staticInvocations = [i \in 1..NInvocations |->
              [pc |-> "ready", messages |-> msgs[i], result |-> NoOutcome]]
    /\ NoDynamicModifier

InitModifier ==
    /\ fusionStrategies = StrategyTable
    /\ layers = <<>>
    /\ weights = <<>>
    /\ weight = 0
    /\ op = "idle"
    /\ strategy = <<>>
    /\ outcome = NoOutcome
    /\ NoResolverCall
    /\ (InitDynamicModifier \/ InitStaticModifier)

NextModifier ==
    \/ \E i \in DOMAIN invocations : ModifierStart(i)
    \/ \E i \in DOMAIN invocations : ModifierResume(i)
    \/ createStaticFusionModifier
    \/ \E i \in DOMAIN staticInvocations : StaticModifierCall(i)

SpecModifier == InitModifier /\ [][NextModifier]_vars

(* Specification of getSemanticEmphasis over a range of weights *)

InitEmphasis ==
    /\ fusionStrategies = StrategyTable
    /\ layers = <<>>
    /\ weights = <<>>
    /\ weight \in (0 - MaxEmphasisWeight)..MaxEmphasisWeight
    /\ op = "idle"
    /\ strategy = <<>>
    /\ outcome = NoOutcome
    /\ NoResolverCall
    /\ NoModifier

NextEmphasis ==
    \/ CallGetSemanticEmphasis
    \/ Return

SpecEmphasis == InitEmphasis /\ [][NextEmphasis]_vars

----------------------------------------------------------------------------
(* Reading a call and its output, for the properties below *)

RanWeighted == op = "weightedFusion" \/ (op = "fusePrompts" /\ strategy = <<"weighted">>)
RanSemantic ==
    \/ op = "semanticWeightedFusion"
    \/ (op = "fusePrompts" /\ strategy \in {<<>>, <<"semanticWeighted">>})
RanFusion == RanWeighted \/ RanSemantic
ReturnedText == outcome.kind = "returned"
ThrewWeightSum == outcome.kind = "threw" /\ outcome.error = "WeightSum"

\* the weights object the strategy received
GivenWeights == IF weights = <<>> THEN <<>> ELSE weights[1]
AllKeysGiven == weights # <<>> /\ DOMAIN weights[1] = LayerKeys

\* the weight the code uses for a layer: the given one, else 0.5 / 0.3 / 0.2
UsedWeight(k) ==
    IF k \in DOMAIN GivenWeights THEN GivenWeights[k]
    ELSE IF k = "base" THEN 500 ELSE IF k = "brain" THEN 300 ELSE 200
UsedSum == UsedWeight("base") + UsedWeight("brain") + UsedWeight("persona")
UsedSumValid == UsedSum >= 999 /\ UsedSum <= 1001

\* the weight of a layer when a missing key counts as 0
ZeroFilledWeight(k) == IF k \in DOMAIN GivenWeights THEN GivenWeights[k] ELSE 0
ZeroFilledSum == ZeroFilledWeight("base") + ZeroFilledWeight("brain") + ZeroFilledWeight("persona")

HasText(k) == k \in DOMAIN layers /\ layers[k] # ""
AllTexts == \A k \in LayerKeys : HasText(k)

MarkerKinds == {"weightMarker", "layerMarker"}
MarkerLayer(name) ==
    IF name \in {"BASE_WEIGHT", "BASE LAYER"} THEN "base"
    ELSE IF name \in {"BRAIN_WEIGHT", "BRAIN CONFIGURATION"} THEN "brain"
    ELSE "persona"
DirectiveLayer(name) ==
    IF name = "BASE" THEN "base" ELSE IF name = "BRAIN" THEN "brain" ELSE "persona"

Out == outcome.value
MarkerAt(i) == Out[i].kind \in MarkerKinds
\* the positions of the block of layer k: its marker, directly followed by its text
BlockPositions(k) ==
    {i \in 1..Len(Out) : MarkerAt(i) /\ MarkerLayer(Out[i].name) = k}
Markers == SelectSeq(Out, LAMBDA l : l.kind \in MarkerKinds)
Directive == SelectSeq(Out, LAMBDA l : l.kind = "rule")
DirectiveNames == [i \in 1..Len(Directive) |-> Directive[i].name]
LabelOf(k) == Out[CHOOSE i \in BlockPositions(k) : TRUE].label

BlockRank(k) == IF k = "base" THEN 1 ELSE IF k = "brain" THEN 2 ELSE 3
TieRank(k) == IF k = "persona" THEN 1 ELSE IF k = "brain" THEN 2 ELSE 3

PersonaDominant ==
    /\ AllKeysGiven
    /\ GivenWeights = [base |-> 200, brain |-> 300, persona |-> 500]

----------------------------------------------------------------------------
(* C1: for a distribution with all three keys, both strategies throw the    *)
(* weight-sum error exactly when |base + brain + persona - 1.0| > 0.001;    *)
(* a rejected call returns no text and an accepted call returns a string.   *)

C2_MissingKeyIsZero ==
    (RanFusion /\ op # "fusePrompts" /\ weights # <<>> /\ ~AllKeysGiven) =>
        /\ ThrewWeightSum <=> (ZeroFilledSum - 1000 > 1 \/ 1000 - ZeroFilledSum > 1)
        /\ ReturnedText =>
              \A k \in LayerKeys :
                  BlockPositions(k) # {} <=> (HasText(k) /\ ZeroFilledWeight(k) > 0)

(* C2 amended: a key missing from an explicit distribution takes its        *)
(* default (base 0.5, brain 0.3, persona 0.2) in the validation sum and in  *)
(* layer inclusion.                                                         *)

C2_MissingKeyIsDefault ==
    (RanFusion /\ op # "fusePrompts" /\ weights # <<>> /\ ~AllKeysGiven) =>
        /\ ThrewWeightSum <=> (UsedSum - 1000 > 1 \/ 1000 - UsedSum > 1)
        /\ ~ThrewWeightSum => ReturnedText
        /\ ReturnedText =>
              \A k \in LayerKeys :
                  BlockPositions(k) # {} <=> (HasText(k) /\ UsedWeight(k) > 0)

C2_Witness ==
    /\ op = "semanticWeightedFusion"
    /\ weights = << [base |-> 500] >>
    /\ AllTexts
    /\ ReturnedText
    /\ \A k \in LayerKeys : BlockPositions(k) # {}

(* C3 as claimed: fusePrompts throws the unknown-strategy error, naming the *)
(* strategy, for every name other than 'weighted' and 'semanticWeighted'.   *)

C3_UnknownStrategy ==
    (op = "fusePrompts" /\ strategy # <<>>
        /\ strategy[1] \notin {"weighted", "semanticWeighted"}) =>
        /\ outcome.kind = "threw"
        /\ outcome.error = "UnknownStrategy"
        /\ outcome.name = strategy[1]

(* C4: getSemanticEmphasis returns the label of the closed-open interval    *)
(* the weight lies in: >= 0.6 critical, [0.4, 0.6) high, [0.2, 0.4)         *)
(* moderate, < 0.2 (zero and negative included) optional.                   *)

C4_Emphasis ==
    op = "getSemanticEmphasis" =>
        /\ outcome.kind = "returned"
        /\ outcome.label \in {"CRITICAL PRIORITY - MUST FOLLOW", "HIGH IMPORTANCE",
                              "MODERATE GUIDANCE", "OPTIONAL CONSIDERATION"}
        /\ outcome.label = "CRITICAL PRIORITY - MUST FOLLOW" <=> weight >= 600
        /\ outcome.label = "HIGH IMPORTANCE" <=> (weight >= 400 /\ weight < 600)
        /\ outcome.label = "MODERATE GUIDANCE" <=> (weight >= 200 /\ weight < 400)
        /\ outcome.label = "OPTIONAL CONSIDERATION" <=> weight < 200

C4_Witness ==
    /\ op = "getSemanticEmphasis"
    /\ weight = 600
    /\ outcome.label = "CRITICAL PRIORITY - MUST FOLLOW"

(* C5 as claimed: with three texts and weights 0.2 / 0.3 / 0.5 the persona  *)
(* block is labelled CRITICAL PRIORITY - MUST FOLLOW and the base and brain *)
(* blocks MODERATE GUIDANCE.                                                *)

C5_PersonaCritical ==
    (op = "semanticWeightedFusion" /\ PersonaDominant /\ AllTexts) =>
        /\ ReturnedText
        /\ \A k \in LayerKeys : BlockPositions(k) # {}
        /\ LabelOf("persona") = "CRITICAL PRIORITY - MUST FOLLOW"
        /\ LabelOf("base") = "MODERATE GUIDANCE"
        /\ LabelOf("brain") = "MODERATE GUIDANCE"

(* C6: in the output of either strategy a layer has a block (its marker     *)
(* directly followed by its text) exactly when its text is non-empty and    *)
(* its weight is > 0, and it has at most one block.                         *)

C6_Omission ==
    (RanFusion /\ ReturnedText) =>
        \A k \in LayerKeys :
            /\ BlockPositions(k) # {} <=> (HasText(k) /\ UsedWeight(k) > 0)
            /\ Cardinality(BlockPositions(k)) <= 1
            /\ \A i \in BlockPositions(k) :
                  /\ i < Len(Out)
                  /\ Out[i + 1] = TextLine(layers[k])

C6_Witness ==
    /\ op = "weightedFusion"
    /\ ReturnedText
    /\ AllTexts
    /\ AllKeysGiven
    /\ GivenWeights = [base |-> 0, brain |-> 1000, persona |-> 0]
    /\ Len(Markers) = 1

(* C7: the directive of a semantic fusion lists exactly the layers with     *)
(* weight > 0, each once, numbered 1..k, in non-increasing weight order,    *)
(* each with its own weight; 0.2 / 0.3 / 0.5 gives PERSONA, BRAIN, BASE.    *)

C7_DirectiveOrder ==
    (RanSemantic /\ ReturnedText) =>
        /\ {DirectiveLayer(Directive[i].name) : i \in 1..Len(Directive)}
              = {k \in LayerKeys : UsedWeight(k) > 0}
        /\ Len(Directive) = Cardinality({k \in LayerKeys : UsedWeight(k) > 0})
        /\ \A i \in 1..Len(Directive) :
              /\ Directive[i].index = i
              /\ Directive[i].name \in {"BASE", "BRAIN", "PERSONA"}
              /\ Directive[i].num = UsedWeight(DirectiveLayer(Directive[i].name))
        /\ \A i \in 1..(Len(Directive) - 1) : Directive[i].num >= Directive[i + 1].num
        /\ PersonaDominant => DirectiveNames = <<"PERSONA", "BRAIN", "BASE">>

C7_Witness ==
    /\ op = "semanticWeightedFusion"
    /\ ReturnedText
    /\ PersonaDominant
    /\ DirectiveNames = <<"PERSONA", "BRAIN", "BASE">>

(* C8: directive entries of equal weight appear in the order persona,       *)
(* brain, base.                                                             *)

C8_TieOrder ==
    (RanSemantic /\ ReturnedText) =>
        \A i, j \in 1..Len(Directive) :
            (i < j /\ Directive[i].num = Directive[j].num) =>
                TieRank(DirectiveLayer(Directive[i].name))
                    < TieRank(DirectiveLayer(Directive[j].name))

C8_Witness ==
    /\ op = "semanticWeightedFusion"
    /\ ReturnedText
    /\ AllKeysGiven
    /\ GivenWeights = [base |-> 500, brain |-> 500, persona |-> 0]
    /\ DirectiveNames = <<"BRAIN", "BASE">>

(* C9: every successful semantic fusion ends with the directive: header,    *)
(* intro, at least one entry and the closing instruction as the last line,  *)
(* after all layer blocks, also when a single layer is listed.              *)

C9_DirectivePresent ==
    (RanSemantic /\ ReturnedText) =>
        \E h \in 1..Len(Out) :
            /\ Out[h] = RulesHeader
            /\ \A i \in 1..Len(Out) : Out[i] = RulesHeader => i = h
            /\ \A i \in 1..Len(Out) : Out[i].kind \in (MarkerKinds \cup {"text"}) => i < h
            /\ Len(Directive) >= 1
            /\ Len(Out) = h + 1 + Len(Directive) + 2
            /\ Out[h + 1] = RulesIntro
            /\ \A i \in 1..Len(Directive) : Out[h + 1 + i] = Directive[i]
            /\ Out[Len(Out) - 1] = Blank
            /\ Out[Len(Out)] = RulesClosing

C9_Witness ==
    /\ op = "semanticWeightedFusion"
    /\ ReturnedText
    /\ AllKeysGiven
    /\ GivenWeights = [base |-> 1000, brain |-> 0, persona |-> 0]
    /\ HasText("base")
    /\ Len(Markers) = 1
    /\ Len(Directive) = 1
    /\ Out[Len(Out)] = RulesClosing

(* C10: the blocks of either strategy appear in the order base, brain,      *)
(* persona whatever the weights.                                            *)

C10_BlockOrder ==
    (RanFusion /\ ReturnedText) =>
        \A i, j \in 1..Len(Markers) :
            i < j => BlockRank(MarkerLayer(Markers[i].name)) < BlockRank(MarkerLayer(Markers[j].name))

C10_Witness ==
    /\ op = "semanticWeightedFusion"
    /\ ReturnedText
    /\ PersonaDominant
    /\ AllTexts
    /\ [i \in 1..Len(Markers) |-> Markers[i].name]
          = <<"BASE LAYER", "BRAIN CONFIGURATION", "PERSONA INSTRUCTIONS">>
    /\ DirectiveNames = <<"PERSONA", "BRAIN", "BASE">>

(* C11: a semantic marker carries the layer's display name and the label of *)
(* that layer's own weight and no number; a weighted marker carries the     *)
(* layer identifier and the raw weight, and no directive follows.           *)

LabelForWeight(w) ==
    IF w >= 600 THEN "CRITICAL PRIORITY - MUST FOLLOW"
    ELSE IF w >= 400 THEN "HIGH IMPORTANCE"
    ELSE IF w >= 200 THEN "MODERATE GUIDANCE"
    ELSE "OPTIONAL CONSIDERATION"
DisplayName(k) ==
    IF k = "base" THEN "BASE LAYER"
    ELSE IF k = "brain" THEN "BRAIN CONFIGURATION" ELSE "PERSONA INSTRUCTIONS"
Identifier(k) ==
    IF k = "base" THEN "BASE_WEIGHT"
    ELSE IF k = "brain" THEN "BRAIN_WEIGHT" ELSE "PERSONA_WEIGHT"
RuleKinds == {"rulesHeader", "rulesIntro", "rule", "rulesClosing"}

C11_Markers ==
    /\ (RanSemantic /\ ReturnedText) =>
          \A k \in LayerKeys : \A i \in BlockPositions(k) :
              /\ Out[i].kind = "layerMarker"
              /\ Out[i].name = DisplayName(k)
              /\ Out[i].label = LabelForWeight(UsedWeight(k))
              /\ Out[i].num = 0
    /\ (RanWeighted /\ ReturnedText) =>
          /\ \A k \in LayerKeys : \A i \in BlockPositions(k) :
                /\ Out[i].kind = "weightMarker"
                /\ Out[i].name = Identifier(k)
                /\ Out[i].num = UsedWeight(k)
                /\ Out[i].label = ""
          /\ \A i \in 1..Len(Out) : Out[i].kind \notin RuleKinds

C11_Witness ==
    /\ op = "semanticWeightedFusion"
    /\ ReturnedText
    /\ AllTexts
    /\ AllKeysGiven
    /\ GivenWeights = [base |-> 600, brain |-> 300, persona |-> 100]
    /\ LabelOf("base") = "CRITICAL PRIORITY - MUST FOLLOW"
    /\ LabelOf("brain") = "MODERATE GUIDANCE"
    /\ LabelOf("persona") = "OPTIONAL CONSIDERATION"

(* C12: detectConflicts records a conflict of type T between two layers     *)
(* exactly when both texts are non-empty and one matches T's first pattern  *)
(* while the other matches T's second, for each of the three pairs and the  *)
(* four types, without regard to case; a verbose base and a concise persona *)
(* always give a verbosity record between base and persona.                 *)

Conflicts == outcome.value
HasConflict(type, l1, l2) ==
    \E i \in 1..Len(Conflicts) :
        /\ Conflicts[i].type = type
        /\ Conflicts[i].layer1 = l1
        /\ Conflicts[i].layer2 = l2
OppositionTypes ==
    { [type |-> "verbosity", first |-> {"verbose", "detailed", "comprehensive"},
       second |-> {"concise", "brief", "short"}],
      [type |-> "tone", first |-> {"formal", "professional"}, second |-> {"casual", "informal"}],
      [type |-> "speed", first |-> {"fast", "quick", "immediate"},
       second |-> {"careful", "thorough", "deliberate"}],
      [type |-> "approach", first |-> {"creative", "innovative"},
       second |-> {"conservative", "traditional"}] }
UnorderedPairs == { <<"base", "brain">>, <<"base", "persona">>, <<"brain", "persona">> }
Matches(k, words) == RegexTest(words, layers[k])
OpposedTexts(T, a, b) ==
    /\ HasText(a)
    /\ HasText(b)
    /\ \/ Matches(a, T.first) /\ Matches(b, T.second)
       \/ Matches(a, T.second) /\ Matches(b, T.first)
VerboseTexts == {"Be verbose and detailed."}
ConciseTexts == {"Be extremely concise.", "brief"}

C12_ConflictIff ==
    op = "detectConflicts" =>
        /\ outcome.kind = "returned"
        /\ \A T \in OppositionTypes : \A p \in UnorderedPairs :
              HasConflict(T.type, p[1], p[2]) <=> OpposedTexts(T, p[1], p[2])
        /\ (/\ {"base", "persona"} \subseteq DOMAIN layers
            /\ layers["base"] \in VerboseTexts
            /\ layers["persona"] \in ConciseTexts)
              => HasConflict("verbosity", "base", "persona")
        /\ (/\ {"base", "persona"} \subseteq DOMAIN layers
            /\ layers["base"] = "INFORMAL"
            /\ layers["persona"] = "Stay professional")
              => HasConflict("tone", "base", "persona")

C12_Witness ==
    /\ op = "detectConflicts"
    /\ DOMAIN layers = LayerKeys
    /\ layers["base"] = "Be extremely concise."
    /\ layers["brain"] = "Maintain moderate length."
    /\ layers["persona"] = "Be verbose and detailed."
    /\ Len(Conflicts) = 1
    /\ HasConflict("verbosity", "base", "persona")

(* C13: detectConflicts always returns, whatever the texts (empty and       *)
(* missing ones included) and whatever weights the caller holds; it returns *)
(* the empty sequence when no pair of texts is opposed, in particular when  *)
(* fewer than two layers have non-empty text.                               *)

C13_NeverFails ==
    op = "detectConflicts" =>
        /\ outcome.kind = "returned"
        /\ (\A T \in OppositionTypes : \A p \in UnorderedPairs : ~OpposedTexts(T, p[1], p[2]))
              => Conflicts = <<>>
        /\ Cardinality({k \in LayerKeys : HasText(k)}) < 2 => Conflicts = <<>>

C13_Witness ==
    /\ op = "detectConflicts"
    /\ weights # <<>>
    /\ DOMAIN layers = {"base"}
    /\ layers["base"] = "INFORMAL"
    /\ outcome.kind = "returned"
    /\ Conflicts = <<>>

(* C14: determineWeights returns the brain-dominant distribution when the   *)
(* persona id is absent (null or empty) or 'default', or the content is     *)
(* absent, empty or whitespace-only, and the persona-dominant distribution  *)
(* otherwise.                                                               *)

Resolved == outcome.value[1]
OverlayInactive == personaId = <<>> \/ personaId[1] \in {"", "default"}
ContentBlank == personaContent = <<>> \/ personaContent[1] \in {"", " \n"}

C14_DetermineWeights ==
    op = "determineWeights" =>
        /\ outcome.kind = "returned"
        /\ (OverlayInactive \/ ContentBlank)
              => Resolved = [base |-> 400, brain |-> 600, persona |-> 0]
        /\ ~(OverlayInactive \/ ContentBlank)
              => Resolved = [base |-> 200, brain |-> 300, persona |-> 500]

C14_Witness ==
    /\ op = "determineWeights"
    /\ personaId = <<"analyst">>
    /\ personaContent = <<" \n">>
    /\ Resolved = [base |-> 400, brain |-> 600, persona |-> 0]

(* C15: every distribution a resolver returns has its three weights in      *)
(* [0, 1] and sums to 1.0 within the tolerance, the resolver never throws,  *)
(* and a fusion called with a resolved distribution never throws the       *)
(* weight-sum error.                                                        *)

C15_ResolvedValid ==
    /\ op \in {"determineWeights", "determineContextualWeights"} =>
          /\ outcome.kind = "returned"
          /\ DOMAIN Resolved = LayerKeys
          /\ \A k \in LayerKeys : Resolved[k] >= 0 /\ Resolved[k] <= 1000
          /\ Resolved["base"] + Resolved["brain"] + Resolved["persona"] >= 999
          /\ Resolved["base"] + Resolved["brain"] + Resolved["persona"] <= 1001
    /\ (op \in {"weightedFusion", "semanticWeightedFusion"} /\ weights # <<>>) =>
          ReturnedText

C15_Witness ==
    /\ op = "weightedFusion"
    /\ weights = << [base |-> 400, brain |-> 300, persona |-> 300] >>
    /\ AllTexts
    /\ ReturnedText
    /\ Len(Markers) = 3

(* C16 as claimed: a fusion call without a weights argument (fusePrompts,   *)
(* weightedFusion or semanticWeightedFusion) proceeds with the defaults     *)
(* 0.5 / 0.3 / 0.2 and returns the text built from them.                    *)

C16_OmittedWeights ==
    (RanFusion /\ weights = <<>>) =>
        /\ ReturnedText
        /\ \A k \in LayerKeys : BlockPositions(k) # {} <=> HasText(k)

(* C17: a weight-sum error carries the sum of the three weights the check   *)
(* used; 0.3 / 0.3 / 0.3 reports 0.9.                                       *)

C17_ErrorSum ==
    (RanFusion /\ ThrewWeightSum) =>
        /\ outcome.sum = UsedSum
        /\ (AllKeysGiven /\ GivenWeights = [base |-> 300, brain |-> 300, persona |-> 300])
              => outcome.sum = 900

C17_Witness ==
    /\ op = "semanticWeightedFusion"
    /\ AllKeysGiven
    /\ GivenWeights = [base |-> 300, brain |-> 300, persona |-> 300]
    /\ ThrewWeightSum
    /\ outcome.sum = 900

(* C20: with a distribution supplied, fusePrompts with 'weighted' has the   *)
(* outcome of weightedFusion on the same texts and weights, and with        *)
(* 'semanticWeighted' or no strategy that of semanticWeightedFusion.        *)

C20_Dispatch ==
    (op = "fusePrompts" /\ weights # <<>>) =>
        /\ strategy = <<"weighted">> =>
              /\ outcome = weightedFusion(layers, weights)
              /\ ReturnedText => \A i \in 1..Len(Out) :
                    Out[i].kind \notin (RuleKinds \cup {"layerMarker"})
        /\ strategy \in {<<>>, <<"semanticWeighted">>} =>
              /\ outcome = semanticWeightedFusion(layers, weights)
              /\ ReturnedText =>
                    /\ Out[Len(Out)].kind = "rulesClosing"
                    /\ \A i \in 1..Len(Out) : Out[i].kind # "weightMarker"

C20_Witness ==
    /\ op = "fusePrompts"
    /\ strategy = <<>>
    /\ PersonaDominant
    /\ AllTexts
    /\ ReturnedText
    /\ LabelOf("persona") = "HIGH IMPORTANCE"

(* C19: under any interleaving of the invocations of one message modifier,  *)
(* every finished invocation has returned what it returns when run alone    *)
(* for its own thread id: the system message built from the persona data of *)
(* that thread, followed by its own messages.                               *)

OwnPersonaData(i) ==
    IF invocations[i].chatId # <<>> /\ options.getPersonaContent # <<>>
    THEN options.getPersonaContent[1][invocations[i].chatId[1]]
    ELSE <<>>
OwnLocals(i) ==
    IF OwnPersonaData(i) = <<>> THEN [personaContent |-> <<>>, activePersonaId |-> "default"]
    ELSE [personaContent |-> OwnPersonaData(i)[1].content,
          activePersonaId |-> IF OwnPersonaData(i)[1].id \in {<<>>, <<"">>}
                              THEN "default" ELSE OwnPersonaData(i)[1].id[1]]
RunAlone(i) == FinishModifier(options, OwnLocals(i), invocations[i].messages)
Done(i) == invocations[i].pc = "done"
SystemMessageOf(i) == invocations[i].result.value[1]

C19_Independent ==
    \A i \in DOMAIN invocations :
        Done(i) =>
            /\ invocations[i].result = RunAlone(i)
            /\ invocations[i].result.kind = "returned"
            /\ SystemMessageOf(i).metadata.personaId = OwnLocals(i).activePersonaId
            /\ \A j \in 1..Len(SystemMessageOf(i).content) :
                  SystemMessageOf(i).content[j].kind = "text" =>
                      SystemMessageOf(i).content[j].text
                          \in {OrEmpty(options.basePrompt), OrEmpty(options.brainPrompt),
                               OrEmpty(OwnLocals(i).personaContent)}

C19_Witness ==
    /\ DOMAIN invocations # {}
    /\ options.getPersonaContent # <<>>
    /\ options.getPersonaContent[1]["t1"] = <<>>
    /\ options.getPersonaContent[1]["t2"] = << [id |-> <<"analyst">>, content |-> <<"x">>] >>
    /\ invocations[1].chatId = <<"t1">>
    /\ invocations[2].chatId = <<"t2">>
    /\ Done(1)
    /\ Done(2)
    /\ SystemMessageOf(1).metadata.mode = "default"
    /\ SystemMessageOf(2).metadata.mode = "persona"

----------------------------------------------------------------------------
(* C21: no step of any sequence of weightedFusion, semanticWeightedFusion,  *)
(* fusePrompts, detectConflicts, determineWeights and                       *)
(* determineContextualWeights calls, returning or throwing, changes the     *)
(* layer bundle or the weights object that was passed in, or the engine's   *)
(* strategy table.                                                          *)

C21_Frame ==
    [][/\ layers' = layers
       /\ weights' = weights
       /\ fusionStrategies' = fusionStrategies]_vars

\* a strategy has returned for a weights object that lacks two keys, so
\* that it used their defaults
C21_Witness ==
    /\ op = "semanticWeightedFusion"
    /\ weights # <<>>
    /\ DOMAIN weights[1] = {"persona"}
    /\ outcome.kind = "returned"

----------------------------------------------------------------------------
(* C22: a finished invocation of the callback of createFusionMessageModifier *)
(* or of createStaticFusionModifier has returned a sequence made of one     *)
(* system message followed by the input messages, all of them, unchanged    *)
(* and in their order; no step changes the messages an invocation was       *)
(* given; and all invocations of one static modifier carry the same system  *)
(* content.                                                                 *)

IsPrepended(out, input) ==
    /\ Len(out) = Len(input) + 1
    /\ out[1].role = "system"
    /\ \A j \in 1..Len(input) : out[j + 1] = input[j]
StaticDone(i) == staticInvocations[i].pc = "done"
InputsKept ==
    /\ \A i \in DOMAIN invocations : invocations'[i].messages = invocations[i].messages
    /\ \A i \in DOMAIN staticInvocations :
          staticInvocations'[i].messages = staticInvocations[i].messages

C22_Prepended ==
    /\ [](\A i \in DOMAIN invocations :
            Done(i) => /\ invocations[i].result.kind = "returned"
                       /\ IsPrepended(invocations[i].result.value, invocations[i].messages))
    /\ [](\A i \in DOMAIN staticInvocations :
            StaticDone(i) =>
                /\ staticInvocations[i].result.kind = "returned"
                /\ IsPrepended(staticInvocations[i].result.value, staticInvocations[i].messages)
                /\ \A j \in DOMAIN staticInvocations :
                      StaticDone(j) => staticInvocations[j].result.value[1]
                                          = staticInvocations[i].result.value[1])
    /\ [][InputsKept]_vars

\* two invocations of one static modifier have finished, one of them on a
\* conversation of two messages
C22_Witness ==
    /\ DOMAIN staticInvocations # {}
    /\ \A i \in DOMAIN staticInvocations : StaticDone(i)
    /\ Len(staticInvocations[1].messages) = 2
    /\ Len(staticInvocations[1].result.value) = 3

----------------------------------------------------------------------------
(* C23: the directive of a successful semantic fusion lists exactly the     *)
(* layers whose weight is above 0, whatever their texts: a layer of         *)
(* positive weight and empty or missing text is listed although it has no   *)
(* block, so the layers with a block are a subset of the listed ones.       *)

ListedLayers == {DirectiveLayer(DirectiveNames[i]) : i \in 1..Len(Directive)}
BlockLayers == {k \in LayerKeys : BlockPositions(k) # {}}

C23_DirectiveByWeights ==
    (RanSemantic /\ ReturnedText) =>
        /\ ListedLayers = {k \in LayerKeys : UsedWeight(k) > 0}
        /\ BlockLayers \subseteq ListedLayers
        /\ \A k \in LayerKeys : (UsedWeight(k) > 0 /\ ~HasText(k)) => k \notin BlockLayers

\* brain has weight 0.3 and no text: it is listed and has no block
C23_Witness ==
    /\ op = "semanticWeightedFusion"
    /\ ReturnedText
    /\ UsedWeight("brain") = 300
    /\ ~HasText("brain")
    /\ "brain" \in ListedLayers
    /\ BlockLayers # ListedLayers
    /\ BlockLayers # {}

----------------------------------------------------------------------------
(* C24: a distribution with a weight below 0 or above 1 whose sum is within *)
(* 0.001 of 1.0 is accepted by both strategies; a layer of negative weight  *)
(* then has no block and, in a semantic fusion, no entry in the directive.  *)

OutOfRange(k) == UsedWeight(k) < 0 \/ UsedWeight(k) > 1000

C24_SumOnly ==
    (RanFusion /\ weights # <<>> /\ UsedSumValid /\ \E k \in LayerKeys : OutOfRange(k)) =>
        /\ ReturnedText
        /\ \A k \in LayerKeys :
              UsedWeight(k) < 0 =>
                  /\ BlockLayers \cap {k} = {}
                  /\ RanSemantic => k \notin ListedLayers

\* base -0.1 with a text and brain 1.1: accepted, base is neither in a block
\* nor listed
C24_Witness ==
    /\ op = "semanticWeightedFusion"
    /\ ReturnedText
    /\ UsedWeight("base") = 0 - 100
    /\ UsedWeight("brain") = 1100
    /\ HasText("base")
    /\ HasText("brain")
    /\ BlockLayers = {"brain"}
    /\ ListedLayers = {"brain"}

----------------------------------------------------------------------------
(* C25: when a semantic fusion accepts a distribution whose three weights   *)
(* all lie in [0,1], at most one block is labelled CRITICAL PRIORITY - MUST *)
(* FOLLOW, and a layer whose block carries that label is the first entry of *)
(* the directive.                                                           *)

AllInUnitRange == \A k \in LayerKeys : UsedWeight(k) >= 0 /\ UsedWeight(k) <= 1000
CriticalLayers == {k \in BlockLayers : LabelOf(k) = "CRITICAL PRIORITY - MUST FOLLOW"}

C25_OneCritical ==
    (RanSemantic /\ ReturnedText /\ AllInUnitRange) =>
        /\ Cardinality(CriticalLayers) <= 1
        /\ \A k \in CriticalLayers : DirectiveLayer(DirectiveNames[1]) = k

\* brain 0.6 beside base 0.4: only brain is critical, and it is listed first
C25_Witness ==
    /\ op = "semanticWeightedFusion"
    /\ ReturnedText
    /\ UsedWeight("base") = 400
    /\ UsedWeight("brain") = 600
    /\ UsedWeight("persona") = 0
    /\ AllTexts
    /\ CriticalLayers = {"brain"}
    /\ DirectiveNames[1] = "BRAIN"

----------------------------------------------------------------------------
(* C26: an invocation of the callback of createFusionMessageModifier that   *)
(* awaits the persona has determined no weights and fused nothing yet; its  *)
(* system message has a PERSONA INSTRUCTIONS block exactly when a thread id *)
(* is present, a fetcher was supplied, the fetched data has an id other     *)
(* than 'default' and its content is not blank; in every other case the     *)
(* weights are the brain-dominant ones and there is no persona block.       *)

Fetched(i) ==
    IF invocations[i].chatId # <<>> /\ options.getPersonaContent # <<>>
    THEN options.getPersonaContent[1][invocations[i].chatId[1]]
    ELSE <<>>
PersonaActive(i) ==
    /\ invocations[i].chatId # <<>>
    /\ options.getPersonaContent # <<>>
    /\ Fetched(i) # <<>>
    /\ Fetched(i)[1].id \notin {<<>>, <<"">>, <<"default">>}
    /\ Fetched(i)[1].content \notin {<<>>, <<"">>, <<" \n">>}
HasPersonaBlock(i) ==
    \E j \in 1..Len(SystemMessageOf(i).content) :
        /\ SystemMessageOf(i).content[j].kind = "layerMarker"
        /\ SystemMessageOf(i).content[j].name = "PERSONA INSTRUCTIONS"

C26_PersonaBlock ==
    \A i \in DOMAIN invocations :
        /\ invocations[i].pc = "awaiting" => invocations[i].result = NoOutcome
        /\ Done(i) =>
              /\ invocations[i].result.kind = "returned"
              /\ HasPersonaBlock(i) <=> PersonaActive(i)
              /\ ~PersonaActive(i) =>
                    SystemMessageOf(i).metadata.fusionWeights
                        = [base |-> 400, brain |-> 600, persona |-> 0]

\* one invocation fetched an active persona and has its block; the other
\* fetched content under the id 'default' and has none
C26_Witness ==
    /\ {1, 2} \subseteq DOMAIN invocations
    /\ Done(1) /\ Done(2)
    /\ PersonaActive(1) /\ HasPersonaBlock(1)
    /\ Fetched(2) = << [id |-> <<"default">>, content |-> <<"x">>] >>
    /\ ~HasPersonaBlock(2)

----------------------------------------------------------------------------
(* C27: in the system message of every finished invocation of the callback  *)
(* of createFusionMessageModifier, metadata.fusionWeights is the            *)
(* distribution the content was fused with, and metadata.mode is 'persona'  *)
(* exactly when metadata.fusionWeights.persona is above 0 ('default'        *)
(* exactly when the brain-dominant distribution was used).                  *)

MetadataOf(i) == SystemMessageOf(i).metadata
\* the weights the persona block, or its absence, shows the fusion to have used
FusedWithPersona(i) == HasPersonaBlock(i)

C27_ModeMatchesWeights ==
    \A i \in DOMAIN invocations :
        Done(i) =>
            /\ MetadataOf(i).fusionWeights \in
                  {[base |-> 400, brain |-> 600, persona |-> 0],
                   [base |-> 200, brain |-> 300, persona |-> 500]}
            /\ FusedWithPersona(i) => MetadataOf(i).fusionWeights.persona > 0
            /\ MetadataOf(i).mode \in {"default", "persona"}
            /\ MetadataOf(i).mode = "persona" <=> MetadataOf(i).fusionWeights.persona > 0
            /\ MetadataOf(i).mode = "default"
                  <=> MetadataOf(i).fusionWeights = [base |-> 400, brain |-> 600, persona |-> 0]

----------------------------------------------------------------------------
(* C28: fusePrompts called with a strategy name other than 'weighted' and   *)
(* 'semanticWeighted' and a distribution whose sum is outside the tolerance *)
(* fails with the unknown-strategy error; a fusePrompts call fails with the *)
(* weight-sum error only for a supported strategy.                          *)

SupportedStrategy == strategy \in {<<>>, <<"weighted">>, <<"semanticWeighted">>}

C28_StrategyFirst ==
    op = "fusePrompts" =>
        /\ (~SupportedStrategy /\ weights # <<>> /\ ~UsedSumValid) =>
              /\ outcome.kind = "threw"
              /\ outcome.error = "UnknownStrategy"
              /\ outcome.name = strategy[1]
        /\ ThrewWeightSum => SupportedStrategy

----------------------------------------------------------------------------
(* C29: for an accepted distribution weightedFusion returns the empty       *)
(* string exactly when no layer has both a text and a weight above 0;       *)
(* semanticWeightedFusion never returns the empty string: when no layer is  *)
(* included its output is the directive alone, from the header to the       *)
(* closing line, and the directive always lists at least one layer.         *)

NoLayerIncluded == \A k \in LayerKeys : ~(HasText(k) /\ UsedWeight(k) > 0)
EmptyString == Out = <<>>

C29_EmptyOutput ==
    /\ (RanWeighted /\ ReturnedText) => (EmptyString <=> NoLayerIncluded)
    /\ (RanSemantic /\ ReturnedText) =>
          /\ ~EmptyString
          /\ Len(Directive) >= 1
          /\ NoLayerIncluded =>
                /\ Out[1] = RulesHeader
                /\ Out[Len(Out)] = RulesClosing
                /\ Len(Out) = Len(Directive) + 4
                /\ \A i \in 1..Len(Out) : Out[i].kind \notin (MarkerKinds \cup {"text"})

\* the only texts belong to layers of weight 0: weightedFusion returns ''
C29_Witness ==
    /\ op = "weightedFusion"
    /\ ReturnedText
    /\ AllKeysGiven
    /\ GivenWeights = [base |-> 0, brain |-> 0, persona |-> 1000]
    /\ HasText("base")
    /\ HasText("brain")
    /\ ~HasText("persona")
    /\ EmptyString

----------------------------------------------------------------------------
(* C30: detectConflicts returns at most one record for a pair of layers and *)
(* a conflict type, also when the opposition matches in both orientations;  *)
(* every record names its layers in the order base, brain, persona, layer1  *)
(* before layer2, with a type among verbosity, tone, speed and approach; a  *)
(* call returns at most 12 records, and a pair can have records of several  *)
(* types.                                                                   *)

LayerRank == [base |-> 1, brain |-> 2, persona |-> 3]
ConflictTypes == {"verbosity", "tone", "speed", "approach"}
EveryOpposition == "verbose, brief, formal, casual, quick, careful, creative, traditional"

C30_OnePerPairAndType ==
    op = "detectConflicts" =>
        /\ Len(Conflicts) <= 12
        /\ \A i \in 1..Len(Conflicts) :
              /\ Conflicts[i].type \in ConflictTypes
              /\ Conflicts[i].layer1 \in LayerKeys
              /\ Conflicts[i].layer2 \in LayerKeys
              /\ LayerRank[Conflicts[i].layer1] < LayerRank[Conflicts[i].layer2]
              /\ \A j \in 1..Len(Conflicts) :
                    (/\ Conflicts[j].type = Conflicts[i].type
                     /\ {Conflicts[j].layer1, Conflicts[j].layer2}
                           = {Conflicts[i].layer1, Conflicts[i].layer2}) => j = i

\* every layer matches both sides of all four oppositions: each pair has
\* one record of each type, 12 records in all
C30_Witness ==
    /\ op = "detectConflicts"
    /\ DOMAIN layers = LayerKeys
    /\ \A k \in LayerKeys : layers[k] = EveryOpposition
    /\ Len(Conflicts) = 12
    /\ \A T \in ConflictTypes : HasConflict(T, "base", "brain")

====
